---- MODULE Spec2Model ----
(***************************************************************************)
(* ptrstream: reverse-DNS (PTR) resolution pipeline.                       *)
(*                                                                         *)
(* The model follows the current Go program (the file with                 *)
(* defaultResolversURL, lookupWithRetry on miekg/dns and                   *)
(* Config.updateDNSServers): main, the producer goroutine, the worker      *)
(* goroutines, Config.getNextServer, Config.updateDNSServers,              *)
(* lookupWithRetry and writeNDJSON.  One TLA+ action is one step of one    *)
(* goroutine between two points where another goroutine can observe or     *)
(* change shared state (a lock operation, an atomic add, a channel         *)
(* operation, a write to the file, the end of a network call).             *)
(***************************************************************************)
EXTENDS Integers, Sequences, FiniteSets, TLC

(***************************************************************************)
(* Bounds of the model.                                                    *)
(***************************************************************************)
NumWorkers == 2      \* cfg.concurrency: workers and capacity of jobs
NumAddrs   == 2      \* addresses the generator delivers in one pass
MaxRetries == 2      \* cfg.retries ranges over 0..MaxRetries
MaxTicks   == 1      \* the clock advances at most MaxTicks times
MaxShardLen == 4     \* the -shard argument has at most MaxShardLen characters
MaxPasses  == 2      \* the generator is created at most MaxPasses times
MaxAnswer  == 2      \* records in the answer section of a reply

(***************************************************************************)
(* Program constants.                                                      *)
(***************************************************************************)
RefreshHours == 24   \* updateDNSServers: 24*time.Hour
DefaultPort  == 53   \* server + ":53"
RcodeSuccess == 0    \* dns.RcodeSuccess

TickHours == RefreshHours           \* granularity of the modelled clock
RcodeFailure == RcodeSuccess + 1    \* some response code other than success

Workers == 1..NumWorkers
Addrs   == 1..NumAddrs
NoLock  == 0                        \* a sync.Mutex nobody holds
NoPort  == 0                        \* an endpoint string without ":"

(***************************************************************************)
(* Strings that the program inspects are sequences of characters.          *)
(***************************************************************************)
Dot   == "."
Space == " "

\* strings.TrimSuffix(name, "."): removes ONE trailing dot, if there is one.
TrimSuffixDot(s) ==
    IF Len(s) > 0 /\ s[Len(s)] = Dot THEN SubSeq(s, 1, Len(s) - 1) ELSE s

RECURSIVE TrimLeft(_)
TrimLeft(s) ==
    IF Len(s) > 0 /\ s[1] = Space THEN TrimLeft(Tail(s)) ELSE s

RECURSIVE TrimRight(_)
TrimRight(s) ==
    IF Len(s) > 0 /\ s[Len(s)] = Space
    THEN TrimRight(SubSeq(s, 1, Len(s) - 1)) ELSE s

\* strings.TrimSpace
TrimSpace(s) == TrimLeft(TrimRight(s))

\* worker: cleaned := strings.TrimSpace(strings.TrimSuffix(name, "."))
Cleaned(name) == TrimSpace(TrimSuffixDot(name))

\* worker: the first name whose cleaned form is not "", else "".
RECURSIVE FirstCleaned(_)
FirstCleaned(names) ==
    IF names = << >> THEN << >>
    ELSE IF Cleaned(Head(names)) # << >> THEN Cleaned(Head(names))
         ELSE FirstCleaned(Tail(names))

(***************************************************************************)
(* Resolver endpoints: "host" or "host:port".                              *)
(***************************************************************************)
Endpoint(h, p) == [host |-> h, port |-> p]

\* main / updateDNSServers: if !strings.Contains(server, ":") { server + ":53" }
NormalizeServer(e) ==
    IF e.port = NoPort THEN Endpoint(e.host, DefaultPort) ELSE e

NormalizeServers(list) == [k \in 1..Len(list) |-> NormalizeServer(list[k])]

\* lookupWithRetry: logServer is the part of server before the first ":".
LogServer(e) == e.host

NoServer == Endpoint("", NoPort)    \* getNextServer's "" result

\* Resolver lists main can start with (loadDNSServers rejects an empty one).
StartLists ==
    { << Endpoint("A", NoPort) >>,
      << Endpoint("A", NoPort), Endpoint("B", DefaultPort) >> }

\* What fetchDefaultResolvers can return during a refresh.
FetchOutcomes ==
    { [err |-> TRUE,  list |-> << >>],
      [err |-> FALSE, list |-> << >>],
      [err |-> FALSE, list |-> << Endpoint("C", NoPort) >>] }

(***************************************************************************)
(* DNS responses.                                                          *)
(***************************************************************************)
HostName  == << "h", Dot >>          \* "h."
ArpaName  == << "q", Dot >>          \* the queried reverse name
AliasName == << "t", Dot >>          \* a CNAME target
EmptyName == << Dot >>               \* "." : empty once cleaned

PTR(ptr, ttl) == [type |-> "PTR", name |-> ArpaName, data |-> ptr, ttl |-> ttl]
CNAME(target, ttl) ==
    [type |-> "CNAME", name |-> ArpaName, data |-> target, ttl |-> ttl]
CNAMEAt(owner, target, ttl) ==
    [type |-> "CNAME", name |-> owner, data |-> target, ttl |-> ttl]
OtherRR == [type |-> "RRSIG", name |-> ArpaName, data |-> << >>, ttl |-> 1]

Reply(e, rc, ans) == [err |-> e, rcode |-> rc, answer |-> ans]

\* What one c.Exchange(m, server) can produce.
ExchangeOutcomes ==
    { Reply(TRUE,  RcodeSuccess,  << >>),                       \* timeout
      Reply(FALSE, RcodeFailure, << >>),
      Reply(FALSE, RcodeSuccess,  << >>),
      Reply(FALSE, RcodeSuccess,  << PTR(HostName, 300) >>),
      Reply(FALSE, RcodeSuccess,  << PTR(EmptyName, 300) >>),
      Reply(FALSE, RcodeSuccess,  << CNAME(AliasName, 60) >>) }

\* The records an answer section is made of: a PTR record, a CNAME record,
\* a CNAME record whose target is the root, and a record of another type.
RecordKinds ==
    { PTR(HostName, 300), CNAME(AliasName, 60), CNAME(EmptyName, 60), OtherRR }

AnswerSections == UNION { [1..n -> RecordKinds] : n \in 0..MaxAnswer }

\* What one c.Exchange(m, server) can produce, with every answer section.
AnswerReplies ==
    { Reply(TRUE, RcodeSuccess, << >>), Reply(FALSE, RcodeFailure, << >>) }
        \cup { Reply(FALSE, RcodeSuccess, ans) : ans \in AnswerSections }

\* lookupWithRetry, the loop over r.Answer.
RECURSIVE AnswerNames(_)
AnswerNames(ans) ==
    IF ans = << >> THEN << >>
    ELSE LET rr == Head(ans) IN
         IF rr.type = "PTR" THEN << rr.data >> \o AnswerNames(Tail(ans))
         ELSE IF rr.type = "CNAME" THEN << rr.name >> \o AnswerNames(Tail(ans))
         ELSE AnswerNames(Tail(ans))

AnswerIsCNAME(ans) == \E k \in 1..Len(ans) : ans[k].type = "CNAME"

RECURSIVE AnswerTTL(_)
AnswerTTL(ans) ==
    IF ans = << >> THEN 0
    ELSE LET rr == ans[Len(ans)] IN
         IF rr.type \in {"PTR", "CNAME"} THEN rr.ttl
         ELSE AnswerTTL(SubSeq(ans, 1, Len(ans) - 1))

RECURSIVE AnswerTarget(_)
AnswerTarget(ans) ==
    IF ans = << >> THEN << >>
    ELSE LET rr == ans[Len(ans)] IN
         IF rr.type = "CNAME" THEN rr.data
         ELSE AnswerTarget(SubSeq(ans, 1, Len(ans) - 1))

\* error values
NoErr        == "nil"
ErrTimeout   == "i/o timeout"
ErrRcode     == "DNS query failed with code"
ErrNoPTR     == "no PTR records found"
ErrNoServers == "no DNS servers available"

\* DNSResponse{}
EmptyResponse ==
    [Names |-> << >>, Server |-> "", RecordType |-> "", Target |-> << >>, TTL |-> 0]

\* lookupWithRetry, one iteration after c.Exchange returned r: the failure
\* reason of the attempt, or NoErr when the attempt returns a response.
AttemptErr(r) ==
    IF r.err THEN ErrTimeout
    ELSE IF r.rcode # RcodeSuccess THEN ErrRcode
    ELSE IF Len(r.answer) > 0 /\ Len(AnswerNames(r.answer)) > 0 THEN NoErr
    ELSE ErrNoPTR

\* Mutant of AttemptResponse: the Server field is left unset.
AttemptResponseNoServer(r, server) ==
    [Names |-> AnswerNames(r.answer), Server |-> "",
     RecordType |-> IF AnswerIsCNAME(r.answer) THEN "CNAME" ELSE "PTR",
     Target |-> TrimSuffixDot(AnswerTarget(r.answer)),
     TTL |-> AnswerTTL(r.answer)]

\* lookupWithRetry, the DNSResponse a successful attempt returns.
AttemptResponse(r, server) ==
    IF AnswerIsCNAME(r.answer)
    THEN [Names |-> AnswerNames(r.answer), Server |-> LogServer(server),
          RecordType |-> "CNAME", Target |-> TrimSuffixDot(AnswerTarget(r.answer)),
          TTL |-> AnswerTTL(r.answer)]
    ELSE [Names |-> AnswerNames(r.answer), Server |-> LogServer(server),
          RecordType |-> "PTR", Target |-> << >>,
          TTL |-> AnswerTTL(r.answer)]

(***************************************************************************)
(* parseShardArg and the library functions it calls.                       *)
(***************************************************************************)
Slash == "/"
Minus == "-"
Plus  == "+"

DigitValue ==
    [c \in {"0", "1", "2", "3", "4", "5", "6", "7", "8", "9"} |->
        CASE c = "0" -> 0 [] c = "1" -> 1 [] c = "2" -> 2 [] c = "3" -> 3
          [] c = "4" -> 4 [] c = "5" -> 5 [] c = "6" -> 6 [] c = "7" -> 7
          [] c = "8" -> 8 [] c = "9" -> 9]

IsDigits(s) == \A k \in 1..Len(s) : s[k] \in DOMAIN DigitValue

RECURSIVE DigitsValue(_)
DigitsValue(s) ==
    IF s = << >> THEN 0
    ELSE DigitsValue(SubSeq(s, 1, Len(s) - 1)) * 10 + DigitValue[s[Len(s)]]

\* strconv.Atoi(s): an optional sign, then one decimal digit or more.  (The
\* range error of Atoi needs more digits than the arguments modelled here.)
Atoi(s) ==
    LET signed == Len(s) > 0 /\ s[1] \in {Minus, Plus}
        digits == IF signed THEN Tail(s) ELSE s
    IN IF Len(digits) = 0 \/ ~IsDigits(digits)
       THEN [err |-> TRUE, val |-> 0]
       ELSE [err |-> FALSE,
             val |-> IF signed /\ s[1] = Minus
                     THEN 0 - DigitsValue(digits) ELSE DigitsValue(digits)]

\* strings.Split(s, "/")
RECURSIVE Split(_)
Split(s) ==
    IF \A k \in 1..Len(s) : s[k] # Slash THEN << s >>
    ELSE LET k == CHOOSE j \in 1..Len(s) :
                      s[j] = Slash /\ \A h \in 1..(j - 1) : s[h] # Slash
         IN << SubSeq(s, 1, k - 1) >> \o Split(SubSeq(s, k + 1, Len(s)))

ErrShardFormat == "invalid shard format (expected n/total)"
ErrShardNumber == "invalid shard number"
ErrShardTotal  == "invalid total shards"
ErrShardRange  == "shard number must be between 1 and total shards"

ShardResult(n, total, err) == [shardNum |-> n, totalShards |-> total, err |-> err]

\* Mutant of parseShardArg: the test shardNum > totalShards is missing.
parseShardArgNoUpper(shard) ==
    IF shard = << >> THEN ShardResult(1, 1, NoErr)
    ELSE LET parts == Split(shard) IN
         IF Len(parts) # 2 THEN ShardResult(0, 0, ErrShardFormat)
         ELSE IF Atoi(parts[1]).err THEN ShardResult(0, 0, ErrShardNumber)
         ELSE IF Atoi(parts[2]).err THEN ShardResult(0, 0, ErrShardTotal)
         ELSE IF Atoi(parts[1]).val < 1
              THEN ShardResult(0, 0, ErrShardRange)
         ELSE ShardResult(Atoi(parts[1]).val, Atoi(parts[2]).val, NoErr)

parseShardArg(shard) ==
    IF shard = << >> THEN ShardResult(1, 1, NoErr)
    ELSE LET parts == Split(shard) IN
         IF Len(parts) # 2 THEN ShardResult(0, 0, ErrShardFormat)
         ELSE IF Atoi(parts[1]).err THEN ShardResult(0, 0, ErrShardNumber)
         ELSE IF Atoi(parts[2]).err THEN ShardResult(0, 0, ErrShardTotal)
         ELSE IF Atoi(parts[1]).val < 1 \/ Atoi(parts[1]).val > Atoi(parts[2]).val
              THEN ShardResult(0, 0, ErrShardRange)
         ELSE ShardResult(Atoi(parts[1]).val, Atoi(parts[2]).val, NoErr)

\* The -shard arguments of the model: every string of at most MaxShardLen
\* of these characters.
ShardChars == {"0", "1", "2", Slash, Minus, "x"}

ShardArgs ==
    UNION { [1..n -> ShardChars] : n \in 0..MaxShardLen }

\* The -s flag after main replaced 0 by time.Now().UnixNano().
Seeds == {1, 2}

(***************************************************************************)
(* State.                                                                  *)
(***************************************************************************)
VARIABLES
    main,           \* main: where it is, the -shard and -s flags as parsed
    cfg,            \* the immutable fields of Config, set by main
    dnsServers,     \* cfg.dnsServers
    serverIndex,    \* cfg.serverIndex (0-based, as in the program)
    lastDNSUpdate,  \* cfg.lastDNSUpdate, in hours
    mu,             \* cfg.mu: NoLock or the worker that holds it
    updateMu,       \* cfg.updateMu: NoLock or the worker that holds it
    now,            \* time.Now(), in hours since main started
    jobs,           \* the buffered channel jobs
    closed,         \* close(jobs) has happened
    prod,           \* the producer goroutine
    wk,             \* the worker goroutines
    stats,          \* Stats: processed, success, failed, cnames
    out,            \* the bytes appended to cfg.outputFile, one entry per Write
    hist            \* history per address: what was done for it

vars == << main, cfg, dnsServers, serverIndex, lastDNSUpdate, mu, updateMu, now,
           jobs, closed, prod, wk, stats, out, hist >>

NoJob == 0

\* A worker between two addresses.
IdleWorker ==
    [pc |-> "idle", ip |-> NoJob, i |-> 0, server |-> NoServer,
     lastErr |-> NoErr, response |-> EmptyResponse, err |-> NoErr,
     resolvers |-> << >>, ptr |-> << >>,
     \* history: the answer section of the reply the response was built from
     answer |-> << >>,
     \* history of the lookupWithRetry call in progress
     gns |-> 0, queried |-> << >>, hits |-> 0, reason |-> NoErr,
     refresh |-> "none"]

NoHistory ==
    [dequeued |-> 0, lookups |-> 0, processed |-> 0, success |-> 0,
     failed |-> 0, cnames |-> 0, lines |-> 0, shown |-> 0, done |-> FALSE,
     failover |-> FALSE,
     \* successes whose response has RecordType "CNAME"
     aliases |-> 0]

\* main: flags parsed, resolvers loaded and normalized, Config and Stats
\* built, jobs made, producer and workers started.
\* the goroutine of main's closure for jobs, before `go func()` and once it
\* runs: it starts by creating the generator
NoStream == [shardNum |-> 0, totalShards |-> 0, seed |-> 0]

Producer(pc) == [pc |-> pc, next |-> 1, ip |-> NoJob, stream |-> NoStream, pass |-> 0]

\* main at flag.Parse(), with the flags it was given
MainFlags(shard, seed, loop, retries, fromFile, hasOutput, servers) ==
    /\ main = [pc |-> "parse", shard |-> shard, seed |-> seed,
               shardNum |-> 0, totalShards |-> 0, err |-> NoErr]
    /\ cfg = [retries |-> retries, fromFile |-> fromFile,
              hasOutput |-> hasOutput, loop |-> loop,
              concurrency |-> NumWorkers, servers |-> NormalizeServers(servers)]
    /\ dnsServers = << >>
    /\ serverIndex = 0
    /\ lastDNSUpdate = 0
    /\ mu = NoLock
    /\ updateMu = NoLock
    /\ now = 0
    /\ jobs = << >>
    /\ closed = FALSE
    /\ prod = Producer("unstarted")
    /\ wk = [w \in Workers |-> [IdleWorker EXCEPT !.pc = "unstarted"]]
    /\ stats = [processed |-> 0, success |-> 0, failed |-> 0, cnames |-> 0]
    /\ out = << >>
    /\ hist = [a \in Addrs |-> NoHistory]

\* main with no -shard: parseShardArg("") has returned 1, 1, nil
Running(seed) ==
    [pc |-> "running", shard |-> << >>, seed |-> seed,
     shardNum |-> parseShardArg(<< >>).shardNum,
     totalShards |-> parseShardArg(<< >>).totalShards, err |-> NoErr]

MainInitAll(retries, fromFile, hasOutput, servers, workers, loop, seed, concurrency) ==
    /\ main = Running(seed)
    /\ cfg = [retries |-> retries, fromFile |-> fromFile,
              hasOutput |-> hasOutput, loop |-> loop,
              concurrency |-> concurrency, servers |-> NormalizeServers(servers)]
    /\ dnsServers = NormalizeServers(servers)
    /\ serverIndex = 0
    /\ lastDNSUpdate = 0
    /\ mu = NoLock
    /\ updateMu = NoLock
    /\ now = 0
    /\ jobs = << >>
    /\ closed = FALSE
    /\ prod = Producer("new")
    /\ wk = workers
    /\ stats = [processed |-> 0, success |-> 0, failed |-> 0, cnames |-> 0]
    /\ out = << >>
    /\ hist = [a \in Addrs |-> NoHistory]

\* -c NumWorkers
MainInitLoop(retries, fromFile, hasOutput, servers, workers, loop, seed) ==
    MainInitAll(retries, fromFile, hasOutput, servers, workers, loop, seed, NumWorkers)

MainInitWith(retries, fromFile, hasOutput, servers, workers) ==
    MainInitLoop(retries, fromFile, hasOutput, servers, workers, FALSE, 1)

MainInit(retries, fromFile, hasOutput, servers) ==
    MainInitWith(retries, fromFile, hasOutput, servers, [w \in Workers |-> IdleWorker])

\* ptrstream -r retries -o path: the resolvers come from defaultResolversURL.
Init ==
    \E retries \in 0..MaxRetries, servers \in StartLists :
        MainInit(retries, FALSE, TRUE, servers)

\* ptrstream -dns file -r retries -o path: the resolvers come from a file.
InitFile ==
    \E retries \in 0..MaxRetries, servers \in StartLists :
        MainInit(retries, TRUE, TRUE, servers)

\* ptrstream -r 1 -o path with one resolver.
InitRecord == MainInit(1, FALSE, TRUE, << Endpoint("A", NoPort) >>)

\* ptrstream -r 1 with one resolver, with and without -o path.
InitOutput ==
    \E hasOutput \in BOOLEAN :
        MainInit(1, FALSE, hasOutput, << Endpoint("A", NoPort) >>)

\* the workers main starts with -c concurrency
WorkersStarted(concurrency) ==
    [w \in Workers |-> IF w <= concurrency
                       THEN IdleWorker ELSE [IdleWorker EXCEPT !.pc = "unstarted"]]

\* ptrstream -c concurrency -r 1 -o path, with and without -l, with one
\* resolver.
InitQueue ==
    \E loop \in BOOLEAN, concurrency \in 1..NumWorkers :
        MainInitAll(1, FALSE, TRUE, << Endpoint("A", NoPort) >>,
                    WorkersStarted(concurrency), loop, 1, concurrency)

\* lookupWithRetry called on its own, by NumWorkers goroutines at once, with
\* a Config whose resolver list may be empty.
InitLookup ==
    \E retries \in 0..MaxRetries, servers \in StartLists \cup { << >> } :
        MainInitWith(retries, FALSE, TRUE, servers,
                     [w \in Workers |-> [IdleWorker EXCEPT !.pc = "call", !.ip = w]])

\* ptrstream -r 1 -o path -s seed, with and without -l, with one resolver.
InitLoop ==
    \E loop \in BOOLEAN, seed \in Seeds :
        MainInitLoop(1, FALSE, TRUE, << Endpoint("A", NoPort) >>,
                     [w \in Workers |-> IdleWorker], loop, seed)

\* ptrstream -shard arg -r 1 -o path, at flag.Parse().
InitShard ==
    \E shard \in ShardArgs :
        MainFlags(shard, 1, FALSE, 1, FALSE, TRUE, << Endpoint("A", NoPort) >>)

(***************************************************************************)
(* main, from flag.Parse() to the start of the goroutines.                 *)
(***************************************************************************)
\* shardNum, totalShards, err := parseShardArg(*shard); on an error main
\* prints it and returns.
MainParseShard ==
    /\ main.pc = "parse"
    /\ LET res == parseShardArg(main.shard) IN
       main' = IF res.err # NoErr
               THEN [main EXCEPT !.pc = "returned", !.err = res.err]
               ELSE [main EXCEPT !.pc = "start", !.shardNum = res.shardNum,
                                 !.totalShards = res.totalShards]
    /\ UNCHANGED << cfg, dnsServers, serverIndex, lastDNSUpdate, mu, updateMu,
                    now, jobs, closed, prod, wk, stats, out, hist >>

\* main: the resolvers loaded and normalized, Config built with
\* lastDNSUpdate = time.Now(), jobs made, the producer and the workers
\* started.
MainStart ==
    /\ main.pc = "start"
    /\ main' = [main EXCEPT !.pc = "running"]
    /\ dnsServers' = cfg.servers
    /\ lastDNSUpdate' = now
    /\ prod' = Producer("new")
    /\ wk' = [w \in Workers |-> IdleWorker]
    /\ UNCHANGED << cfg, serverIndex, mu, updateMu,
                    now, jobs, closed, stats, out, hist >>

(***************************************************************************)
(* The clock.                                                              *)
(***************************************************************************)
\* The clock is read only in updateDNSServers (time.Since, time.Now).  An
\* advance of the clock at any other moment cannot be told from the same
\* advance just before the next read, so the clock advances when a read is
\* about to happen.
ClockRead == \E w \in Workers : wk[w].pc \in {"update", "swapped"}

Tick ==
    /\ now < MaxTicks * TickHours
    /\ ClockRead
    /\ now' = now + TickHours
    /\ UNCHANGED << main, cfg, dnsServers, serverIndex, lastDNSUpdate, mu, updateMu,
                    jobs, closed, prod, wk, stats, out, hist >>

(***************************************************************************)
(* The producer goroutine of main.                                         *)
(***************************************************************************)
\* Mutant of ProducerNewStream: every generator gets a seed of its own.
ProducerNewStreamReseed(ok) ==
    /\ prod.pc = "new"
    /\ prod.pass < MaxPasses
    /\ prod' = IF ok
               THEN [prod EXCEPT !.pc = "pull", !.next = 1, !.pass = @ + 1,
                                 !.stream = [shardNum |-> main.shardNum,
                                             totalShards |-> main.totalShards,
                                             seed |-> main.seed + prod.pass]]
               ELSE [prod EXCEPT !.pc = "failed"]
    /\ UNCHANGED << main, cfg, dnsServers, serverIndex, lastDNSUpdate, mu, updateMu,
                    now, jobs, closed, wk, stats, out, hist >>

\* golcg.IPStream("0.0.0.0/0", shardNum, totalShards, int(*seed), nil): the
\* generator, or an error, on which the goroutine returns.
ProducerNewStream(ok) ==
    /\ prod.pc = "new"
    /\ prod.pass < MaxPasses
    /\ prod' = IF ok
               THEN [prod EXCEPT !.pc = "pull", !.next = 1, !.pass = @ + 1,
                                 !.stream = [shardNum |-> main.shardNum,
                                             totalShards |-> main.totalShards,
                                             seed |-> main.seed]]
               ELSE [prod EXCEPT !.pc = "failed"]
    /\ UNCHANGED << main, cfg, dnsServers, serverIndex, lastDNSUpdate, mu, updateMu,
                    now, jobs, closed, wk, stats, out, hist >>

\* for ip := range stream: the generator delivers its next address.
ProducerPull ==
    /\ prod.pc = "pull"
    /\ prod' = IF prod.next <= NumAddrs
               THEN [prod EXCEPT !.pc = "push", !.next = prod.next + 1, !.ip = prod.next]
               ELSE [prod EXCEPT !.pc = "close", !.ip = NoJob]
    /\ UNCHANGED << main, cfg, dnsServers, serverIndex, lastDNSUpdate, mu, updateMu,
                    now, jobs, closed, wk, stats, out, hist >>

\* Mutant of ProducerPush: the channel has no capacity limit.
ProducerPushUnbounded ==
    /\ prod.pc = "push"
    /\ jobs' = Append(jobs, prod.ip)
    /\ prod' = [prod EXCEPT !.pc = "pull", !.ip = NoJob]
    /\ UNCHANGED << main, cfg, dnsServers, serverIndex, lastDNSUpdate, mu, updateMu,
                    now, closed, wk, stats, out, hist >>

\* jobs <- ip: blocks while the channel holds cfg.concurrency addresses.
ProducerPush ==
    /\ prod.pc = "push"
    /\ Len(jobs) < cfg.concurrency
    /\ jobs' = Append(jobs, prod.ip)
    /\ prod' = [prod EXCEPT !.pc = "pull", !.ip = NoJob]
    /\ UNCHANGED << main, cfg, dnsServers, serverIndex, lastDNSUpdate, mu, updateMu,
                    now, closed, wk, stats, out, hist >>

\* if !cfg.loop { break } ... close(jobs)
ProducerClose ==
    /\ prod.pc = "close"
    /\ ~cfg.loop
    /\ closed' = TRUE
    /\ prod' = [prod EXCEPT !.pc = "done"]
    /\ UNCHANGED << main, cfg, dnsServers, serverIndex, lastDNSUpdate, mu, updateMu,
                    now, jobs, wk, stats, out, hist >>

\* range stream has ended and cfg.loop is set: back to the top of the for
\* loop, where the generator is created again.
ProducerRestart ==
    /\ prod.pc = "close"
    /\ cfg.loop
    /\ prod' = [prod EXCEPT !.pc = "new"]
    /\ UNCHANGED << main, cfg, dnsServers, serverIndex, lastDNSUpdate, mu, updateMu,
                    now, jobs, closed, wk, stats, out, hist >>

(***************************************************************************)
(* worker: for ip := range jobs                                            *)
(***************************************************************************)
WorkerDequeue(w) ==
    /\ wk[w].pc = "idle"
    /\ Len(jobs) > 0
    /\ jobs' = Tail(jobs)
    /\ wk' = [wk EXCEPT ![w] = [IdleWorker EXCEPT !.pc = "check", !.ip = Head(jobs)]]
    /\ hist' = [hist EXCEPT ![Head(jobs)].dequeued = @ + 1]
    /\ UNCHANGED << main, cfg, dnsServers, serverIndex, lastDNSUpdate, mu, updateMu,
                    now, closed, prod, stats, out >>

\* the range loop ends when jobs is closed and drained: defer wg.Done()
WorkerExit(w) ==
    /\ wk[w].pc = "idle"
    /\ Len(jobs) = 0
    /\ closed
    /\ wk' = [wk EXCEPT ![w].pc = "exited"]
    /\ UNCHANGED << main, cfg, dnsServers, serverIndex, lastDNSUpdate, mu, updateMu,
                    now, jobs, closed, prod, stats, out, hist >>

\* for i := 0; i < cfg.concurrency; i++ { wg.Add(1); go worker(...) }
Started == 1..cfg.concurrency

\* Mutant of AppStop: app.Stop() as soon as one worker has exited.
AppStopEarly ==
    /\ main.pc = "running"
    /\ \E w \in Started : wk[w].pc = "exited"
    /\ main' = [main EXCEPT !.pc = "stopped"]
    /\ UNCHANGED << cfg, dnsServers, serverIndex, lastDNSUpdate, mu, updateMu,
                    now, jobs, closed, prod, wk, stats, out, hist >>

\* go func() { wg.Wait(); app.Stop() }(): every worker has run wg.Done().
AppStop ==
    /\ main.pc = "running"
    /\ \A w \in Started : wk[w].pc = "exited"
    /\ main' = [main EXCEPT !.pc = "stopped"]
    /\ UNCHANGED << cfg, dnsServers, serverIndex, lastDNSUpdate, mu, updateMu,
                    now, jobs, closed, prod, wk, stats, out, hist >>

\* lookupWithRetry returns (response, err) to the worker.
Returned(rec, response, err) ==
    [rec EXCEPT !.pc = "processed", !.response = response, !.err = err]

\* Mutant of LoopOrReturn: the loop condition is i <= cfg.retries.
LoopOrReturnOneMore(rec, i, lastErr) ==
    IF i <= cfg.retries
    THEN [rec EXCEPT !.pc = "update", !.i = i, !.lastErr = lastErr]
    ELSE Returned([rec EXCEPT !.i = i, !.lastErr = lastErr], EmptyResponse, lastErr)

\* lookupWithRetry: the loop condition i < cfg.retries, then either the
\* call of getNextServer or the final return DNSResponse{}, lastErr.
LoopOrReturn(rec, i, lastErr) ==
    IF i < cfg.retries
    THEN [rec EXCEPT !.pc = "update", !.i = i, !.lastErr = lastErr]
    ELSE Returned([rec EXCEPT !.i = i, !.lastErr = lastErr], EmptyResponse, lastErr)

\* worker: if len(cfg.dnsServers) > 0 { lookupWithRetry(ip, cfg) }.
\* main returns before starting any worker when no resolver was loaded, so
\* the net.LookupAddr branch is never taken.
\* cfg.dnsServers is read without cfg.mu; a refresh only ever installs a
\* non-empty list, so whichever length the read sees is positive.
WorkerCallLookup(w) ==
    /\ wk[w].pc = "check"
    /\ Len(dnsServers) > 0
    /\ wk' = [wk EXCEPT ![w] = LoopOrReturn(@, 0, NoErr)]
    /\ hist' = [hist EXCEPT ![wk[w].ip].lookups = @ + 1]
    /\ UNCHANGED << main, cfg, dnsServers, serverIndex, lastDNSUpdate, mu, updateMu,
                    now, jobs, closed, prod, stats, out >>

\* lookupWithRetry(ip, cfg) called directly.
LookupCall(w) ==
    /\ wk[w].pc = "call"
    /\ wk' = [wk EXCEPT ![w] = LoopOrReturn(@, 0, NoErr)]
    /\ UNCHANGED << main, cfg, dnsServers, serverIndex, lastDNSUpdate, mu, updateMu,
                    now, jobs, closed, prod, stats, out, hist >>

(***************************************************************************)
(* Config.getNextServer, which starts with Config.updateDNSServers.        *)
(***************************************************************************)
\* Mutant of Fresh: the list is always taken to be stale.
FreshNever == FALSE

\* updateDNSServers: time.Since(c.lastDNSUpdate) < 24*time.Hour
Fresh == now - lastDNSUpdate < RefreshHours

\* getNextServer calls updateDNSServers: c.updateMu.Lock(), then the test
\* of the clock.  Fresh: return nil, the deferred Unlock runs.  Stale: go on
\* to fetchDefaultResolvers with updateMu held.
UpdateCheck(w) ==
    /\ wk[w].pc = "update"
    /\ updateMu = NoLock
    /\ IF Fresh
       THEN /\ UNCHANGED updateMu
            /\ wk' = [wk EXCEPT ![w].pc = "server", ![w].gns = @ + 1,
                                ![w].refresh = "none"]
       ELSE /\ updateMu' = w
            /\ wk' = [wk EXCEPT ![w].pc = "fetch", ![w].gns = @ + 1,
                                ![w].refresh = "none"]
    /\ UNCHANGED << main, cfg, dnsServers, serverIndex, lastDNSUpdate, mu, now,
                    jobs, closed, prod, stats, out, hist >>

\* history: how the fetch of this getNextServer call ended
Fetched(f) == IF f.err \/ f.list = << >> THEN "failed" ELSE "list"

\* Mutant of FetchDone: the test len(resolvers) == 0 is missing, so an
\* empty list is installed.
FetchDoneInstallsEmpty(w, f) ==
    /\ wk[w].pc = "fetch"
    /\ IF f.err
       THEN /\ updateMu' = NoLock
            /\ wk' = [wk EXCEPT ![w].pc = "server", ![w].refresh = Fetched(f)]
       ELSE /\ UNCHANGED updateMu
            /\ wk' = [wk EXCEPT ![w].pc = "swap", ![w].refresh = Fetched(f),
                                ![w].resolvers = NormalizeServers(f.list)]
    /\ UNCHANGED << main, cfg, dnsServers, serverIndex, lastDNSUpdate, mu, now,
                    jobs, closed, prod, stats, out, hist >>

\* updateDNSServers: fetchDefaultResolvers returned.  An error or an empty
\* list is returned to getNextServer, which prints it and goes on.
\* Otherwise the servers without a port get ":53".
FetchDone(w, f) ==
    /\ wk[w].pc = "fetch"
    /\ IF f.err \/ Len(f.list) = 0
       THEN /\ updateMu' = NoLock
            /\ wk' = [wk EXCEPT ![w].pc = "server", ![w].refresh = Fetched(f)]
       ELSE /\ UNCHANGED updateMu
            /\ wk' = [wk EXCEPT ![w].pc = "swap", ![w].refresh = Fetched(f),
                                ![w].resolvers = NormalizeServers(f.list)]
    /\ UNCHANGED << main, cfg, dnsServers, serverIndex, lastDNSUpdate, mu, now,
                    jobs, closed, prod, stats, out, hist >>

\* Mutant of SwapList: the list is replaced without taking c.mu.
SwapListNoLock(w) ==
    /\ wk[w].pc = "swap"
    /\ dnsServers' = wk[w].resolvers
    /\ wk' = [wk EXCEPT ![w].pc = "swapped", ![w].resolvers = << >>]
    /\ UNCHANGED << main, cfg, serverIndex, lastDNSUpdate, mu, updateMu, now,
                    jobs, closed, prod, stats, out, hist >>

\* updateDNSServers: c.mu.Lock(); c.dnsServers = resolvers
SwapList(w) ==
    /\ wk[w].pc = "swap"
    /\ mu = NoLock
    /\ mu' = w
    /\ dnsServers' = wk[w].resolvers
    /\ wk' = [wk EXCEPT ![w].pc = "swapped", ![w].resolvers = << >>]
    /\ UNCHANGED << main, cfg, serverIndex, lastDNSUpdate, updateMu, now,
                    jobs, closed, prod, stats, out, hist >>

\* Mutant of SwapDone: c.mu.Unlock() is missing.
SwapDoneKeepsMu(w) ==
    /\ wk[w].pc = "swapped"
    /\ serverIndex' = 0
    /\ lastDNSUpdate' = now
    /\ updateMu' = NoLock
    /\ wk' = [wk EXCEPT ![w].pc = "server"]
    /\ UNCHANGED << main, cfg, dnsServers, mu, now,
                    jobs, closed, prod, stats, out, hist >>

\* Mutant of SwapDone: c.serverIndex = 0 is missing.
SwapDoneKeepsCursor(w) ==
    /\ wk[w].pc = "swapped"
    /\ lastDNSUpdate' = now
    /\ mu' = NoLock
    /\ updateMu' = NoLock
    /\ wk' = [wk EXCEPT ![w].pc = "server"]
    /\ UNCHANGED << main, cfg, dnsServers, serverIndex, now,
                    jobs, closed, prod, stats, out, hist >>

\* updateDNSServers: c.serverIndex = 0; c.lastDNSUpdate = time.Now();
\* c.mu.Unlock(); return nil (the deferred c.updateMu.Unlock() runs).
SwapDone(w) ==
    /\ wk[w].pc = "swapped"
    /\ serverIndex' = 0
    /\ lastDNSUpdate' = now
    /\ mu' = NoLock
    /\ updateMu' = NoLock
    /\ wk' = [wk EXCEPT ![w].pc = "server"]
    /\ UNCHANGED << main, cfg, dnsServers, now,
                    jobs, closed, prod, stats, out, hist >>

\* Mutant of NextIndex: the cursor advances by two.
NextIndexSkip(index, n) == (index + 2) % n

\* getNextServer: c.serverIndex = (c.serverIndex + 1) % len(c.dnsServers)
NextIndex(index, n) == (index + 1) % n

\* getNextServer: c.mu.Lock(); "" for an empty list, else the server under
\* the cursor and the cursor advanced; the deferred c.mu.Unlock() runs.
\* Back in lookupWithRetry: server == "" returns the error, otherwise the
\* query is sent.
ServerNext(w) ==
    /\ wk[w].pc = "server"
    /\ mu = NoLock
    /\ IF Len(dnsServers) = 0
       THEN /\ UNCHANGED serverIndex
            /\ wk' = [wk EXCEPT ![w] = Returned(@, EmptyResponse, ErrNoServers)]
       ELSE /\ serverIndex' = NextIndex(serverIndex, Len(dnsServers))
            /\ wk' = [wk EXCEPT ![w].pc = "exchange",
                                ![w].server = dnsServers[serverIndex + 1]]
    /\ UNCHANGED << main, cfg, dnsServers, lastDNSUpdate, mu, updateMu, now,
                    jobs, closed, prod, stats, out, hist >>

(***************************************************************************)
(* lookupWithRetry: one query and its classification.                      *)
(***************************************************************************)
\* c.Exchange(m, server) returned r.  (dns.ReverseAddr cannot fail here: the
\* generator delivers well-formed dotted quads.)
Exchange(w, r) ==
    /\ wk[w].pc = "exchange"
    /\ LET asked == [wk[w] EXCEPT !.queried = Append(@, wk[w].server),
                                  !.answer = r.answer,
                                  !.hits = @ + (IF AttemptErr(r) = NoErr THEN 1 ELSE 0),
                                  !.reason = AttemptErr(r)] IN
       wk' = [wk EXCEPT ![w] =
                IF AttemptErr(r) = NoErr
                THEN Returned(asked, AttemptResponse(r, wk[w].server), NoErr)
                ELSE LoopOrReturn(asked, wk[w].i + 1, AttemptErr(r))]
    /\ UNCHANGED << main, cfg, dnsServers, serverIndex, lastDNSUpdate, mu, updateMu,
                    now, jobs, closed, prod, stats, out, hist >>

(***************************************************************************)
(* worker: what happens with the result of the lookup.                     *)
(***************************************************************************)
\* the worker is done with its address and goes back to range jobs
NextAddress(w) == [wk EXCEPT ![w] = IdleWorker]

\* Mutant of WorkerProcessed: processed is read, incremented and written
\* back without atomicity, so that of two increments under way one is lost.
WorkerProcessedLost(w) ==
    /\ wk[w].pc = "processed"
    /\ stats' = [stats EXCEPT !.processed =
                    IF \E v \in Workers \ {w} : wk[v].pc = "processed"
                    THEN @ ELSE @ + 1]
    /\ wk' = [wk EXCEPT ![w] =
                [IdleWorker EXCEPT
                    !.ip = wk[w].ip, !.response = wk[w].response, !.err = wk[w].err,
                    !.answer = wk[w].answer,
                    !.pc = IF wk[w].err # NoErr \/ Len(wk[w].response.Names) = 0
                           THEN "failed" ELSE "success"]]
    /\ hist' = [hist EXCEPT ![wk[w].ip].processed = @ + 1,
                            ![wk[w].ip].failover =
                                wk[w].err = NoErr /\ Len(wk[w].queried) > 1]
    /\ UNCHANGED << main, cfg, dnsServers, serverIndex, lastDNSUpdate, mu, updateMu,
                    now, jobs, closed, prod, out >>

\* stats.increment(), then the two failure tests
WorkerProcessed(w) ==
    /\ wk[w].pc = "processed"
    /\ stats' = [stats EXCEPT !.processed = @ + 1]
    /\ wk' = [wk EXCEPT ![w] =
                [IdleWorker EXCEPT
                    !.ip = wk[w].ip, !.response = wk[w].response, !.err = wk[w].err,
                    !.answer = wk[w].answer,
                    !.pc = IF wk[w].err # NoErr \/ Len(wk[w].response.Names) = 0
                           THEN "failed" ELSE "success"]]
    /\ hist' = [hist EXCEPT ![wk[w].ip].processed = @ + 1,
                            ![wk[w].ip].failover =
                                wk[w].err = NoErr /\ Len(wk[w].queried) > 1]
    /\ UNCHANGED << main, cfg, dnsServers, serverIndex, lastDNSUpdate, mu, updateMu,
                    now, jobs, closed, prod, out >>

\* Mutant of WorkerFailed: the failure is not counted.
WorkerFailedNoCount(w) ==
    /\ wk[w].pc = "failed"
    /\ wk' = NextAddress(w)
    /\ hist' = [hist EXCEPT ![wk[w].ip].done = TRUE]
    /\ UNCHANGED << main, cfg, dnsServers, serverIndex, lastDNSUpdate, mu, updateMu,
                    now, jobs, closed, prod, stats, out >>

\* Mutant of WorkerFailed: the failed address is put back on the queue.
WorkerFailedRequeue(w) ==
    /\ wk[w].pc = "failed"
    /\ stats' = [stats EXCEPT !.failed = @ + 1]
    /\ wk' = NextAddress(w)
    /\ hist' = [hist EXCEPT ![wk[w].ip].failed = @ + 1, ![wk[w].ip].done = TRUE]
    /\ jobs' = IF ~closed /\ Len(jobs) < cfg.concurrency
               THEN Append(jobs, wk[w].ip) ELSE jobs
    /\ UNCHANGED << main, cfg, dnsServers, serverIndex, lastDNSUpdate, mu, updateMu,
                    now, closed, prod, out >>

\* Mutant of WorkerFailed: the worker returns after a failed lookup.
WorkerFailedExits(w) ==
    /\ wk[w].pc = "failed"
    /\ stats' = [stats EXCEPT !.failed = @ + 1]
    /\ wk' = [wk EXCEPT ![w] = [IdleWorker EXCEPT !.pc = "exited"]]
    /\ hist' = [hist EXCEPT ![wk[w].ip].failed = @ + 1, ![wk[w].ip].done = TRUE]
    /\ UNCHANGED << main, cfg, dnsServers, serverIndex, lastDNSUpdate, mu, updateMu,
                    now, jobs, closed, prod, out >>

\* stats.incrementFailed(); continue
WorkerFailed(w) ==
    /\ wk[w].pc = "failed"
    /\ stats' = [stats EXCEPT !.failed = @ + 1]
    /\ wk' = NextAddress(w)
    /\ hist' = [hist EXCEPT ![wk[w].ip].failed = @ + 1, ![wk[w].ip].done = TRUE]
    /\ UNCHANGED << main, cfg, dnsServers, serverIndex, lastDNSUpdate, mu, updateMu,
                    now, jobs, closed, prod, out >>

\* 1 when the response the worker holds has RecordType "CNAME", else 0
IsAlias(rec) == IF rec.response.RecordType = "CNAME" THEN 1 ELSE 0

\* Mutant of WorkerSuccess: without an output file the address is dropped
\* after the success is counted.
WorkerSuccessNeedsOutput(w) ==
    /\ wk[w].pc = "success"
    /\ stats' = [stats EXCEPT !.success = @ + 1]
    /\ LET ptr == FirstCleaned(wk[w].response.Names) IN
       IF ptr = << >> \/ ~cfg.hasOutput
       THEN /\ wk' = NextAddress(w)
            /\ hist' = [hist EXCEPT ![wk[w].ip].success = @ + 1,
                                    ![wk[w].ip].aliases = @ + IsAlias(wk[w]),
                                    ![wk[w].ip].done = TRUE]
       ELSE /\ wk' = [wk EXCEPT ![w].ptr = ptr, ![w].pc = "write"]
            /\ hist' = [hist EXCEPT ![wk[w].ip].success = @ + 1,
                                    ![wk[w].ip].aliases = @ + IsAlias(wk[w])]
    /\ UNCHANGED << main, cfg, dnsServers, serverIndex, lastDNSUpdate, mu, updateMu,
                    now, jobs, closed, prod, out >>

\* stats.incrementSuccess(); ptr := first cleaned name; if ptr == ""
\* { continue }; writeNDJSON(...) returns at once when cfg.outputFile == nil.
WorkerSuccess(w) ==
    /\ wk[w].pc = "success"
    /\ stats' = [stats EXCEPT !.success = @ + 1]
    /\ LET ptr == FirstCleaned(wk[w].response.Names) IN
       IF ptr = << >>
       THEN /\ wk' = NextAddress(w)
            /\ hist' = [hist EXCEPT ![wk[w].ip].success = @ + 1,
                                    ![wk[w].ip].aliases = @ + IsAlias(wk[w]),
                                    ![wk[w].ip].done = TRUE]
       ELSE /\ wk' = [wk EXCEPT ![w].ptr = ptr,
                                ![w].pc = IF cfg.hasOutput THEN "write" ELSE "show"]
            /\ hist' = [hist EXCEPT ![wk[w].ip].success = @ + 1,
                                    ![wk[w].ip].aliases = @ + IsAlias(wk[w])]
    /\ UNCHANGED << main, cfg, dnsServers, serverIndex, lastDNSUpdate, mu, updateMu,
                    now, jobs, closed, prod, out >>

\* writeNDJSON: the record and json.Marshal; Target has omitempty.
Record(ip, server, ptr, recordType, target, ttl) ==
    LET fields == [ip_addr |-> ip, dns_server |-> server, ptr_record |-> ptr,
                   record_type |-> recordType, ttl |-> ttl]
    IN IF target = << >> THEN fields ELSE fields @@ [target |-> target]

\* Mutant of WriteData: the file is written without taking cfg.mu.
WriteDataNoLock(w) ==
    /\ wk[w].pc = "write"
    /\ mu' = w
    /\ out' = Append(out, [kind |-> "data",
                           rec |-> Record(wk[w].ip, wk[w].response.Server,
                                          wk[w].ptr, wk[w].response.RecordType,
                                          wk[w].response.Target, wk[w].response.TTL)])
    /\ wk' = [wk EXCEPT ![w].pc = "newline"]
    /\ UNCHANGED << main, cfg, dnsServers, serverIndex, lastDNSUpdate, updateMu,
                    now, jobs, closed, prod, stats, hist >>

\* writeNDJSON: cfg.mu.Lock(); cfg.outputFile.Write(data)
WriteData(w) ==
    /\ wk[w].pc = "write"
    /\ mu = NoLock
    /\ mu' = w
    /\ out' = Append(out, [kind |-> "data",
                           rec |-> Record(wk[w].ip, wk[w].response.Server,
                                          wk[w].ptr, wk[w].response.RecordType,
                                          wk[w].response.Target, wk[w].response.TTL)])
    /\ wk' = [wk EXCEPT ![w].pc = "newline"]
    /\ UNCHANGED << main, cfg, dnsServers, serverIndex, lastDNSUpdate, updateMu,
                    now, jobs, closed, prod, stats, hist >>

\* writeNDJSON: cfg.outputFile.Write([]byte("\n")); cfg.mu.Unlock()
WriteNewline(w) ==
    /\ wk[w].pc = "newline"
    /\ out' = Append(out, [kind |-> "nl", rec |-> wk[w].ip])
    /\ mu' = NoLock
    /\ wk' = [wk EXCEPT ![w].pc = "show"]
    /\ hist' = [hist EXCEPT ![wk[w].ip].lines = @ + 1]
    /\ UNCHANGED << main, cfg, dnsServers, serverIndex, lastDNSUpdate, updateMu,
                    now, jobs, closed, prod, stats >>

\* if response.RecordType == "CNAME" { stats.incrementCNAME() }; the line
\* is queued for the text view; next address.
WorkerShow(w) ==
    /\ wk[w].pc = "show"
    /\ LET c == IF wk[w].response.RecordType = "CNAME" THEN 1 ELSE 0 IN
       /\ stats' = [stats EXCEPT !.cnames = @ + c]
       /\ hist' = [hist EXCEPT ![wk[w].ip].cnames = @ + c,
                               ![wk[w].ip].shown = @ + 1,
                               ![wk[w].ip].done = TRUE]
    /\ wk' = NextAddress(w)
    /\ UNCHANGED << main, cfg, dnsServers, serverIndex, lastDNSUpdate, mu, updateMu,
                    now, jobs, closed, prod, out >>

(***************************************************************************)
(* The program: main has started the producer and cfg.concurrency workers. *)
(***************************************************************************)
Next ==
    \/ Tick
    \/ AppStop
    \/ \E ok \in BOOLEAN : ProducerNewStream(ok)
    \/ ProducerPull
    \/ ProducerPush
    \/ ProducerClose
    \/ \E w \in Workers :
        \/ WorkerDequeue(w)
        \/ WorkerExit(w)
        \/ WorkerCallLookup(w)
        \/ UpdateCheck(w)
        \/ \E f \in FetchOutcomes : FetchDone(w, f)
        \/ SwapList(w)
        \/ SwapDone(w)
        \/ ServerNext(w)
        \/ \E r \in ExchangeOutcomes : Exchange(w, r)
        \/ WorkerProcessed(w)
        \/ WorkerFailed(w)
        \/ WorkerSuccess(w)
        \/ WriteData(w)
        \/ WriteNewline(w)
        \/ WorkerShow(w)

Spec == Init /\ [][Next]_vars

SpecFile == InitFile /\ [][Next]_vars

SpecOutput == InitOutput /\ [][Next]_vars

\* The steps of the producer goroutine and of worker w.
ProducerStep ==
    \/ \E ok \in BOOLEAN : ProducerNewStream(ok)
    \/ ProducerPull
    \/ ProducerPush
    \/ ProducerClose

WorkerStep(w) ==
    \/ WorkerDequeue(w)
    \/ WorkerExit(w)
    \/ WorkerCallLookup(w)
    \/ UpdateCheck(w)
    \/ \E f \in FetchOutcomes : FetchDone(w, f)
    \/ SwapList(w)
    \/ SwapDone(w)
    \/ ServerNext(w)
    \/ \E r \in ExchangeOutcomes : Exchange(w, r)
    \/ WorkerProcessed(w)
    \/ WorkerFailed(w)
    \/ WorkerSuccess(w)
    \/ WriteData(w)
    \/ WriteNewline(w)
    \/ WorkerShow(w)

\* The Go scheduler runs every goroutine that can run, every network call
\* returns (the query has cfg.timeout) and every file write returns.
Fairness ==
    /\ WF_vars(ProducerStep)
    /\ \A w \in Workers : WF_vars(WorkerStep(w))
    /\ WF_vars(AppStop)

\* ptrstream -r 1 -o path with one resolver, under that scheduling.
SpecFair == InitRecord /\ [][Next]_vars /\ Fairness

\* The program, its replies drawn from AnswerReplies.
NextRecord ==
    \/ Tick
    \/ AppStop
    \/ \E ok \in BOOLEAN : ProducerNewStream(ok)
    \/ ProducerPull
    \/ ProducerPush
    \/ ProducerClose
    \/ \E w \in Workers :
        \/ WorkerDequeue(w)
        \/ WorkerExit(w)
        \/ WorkerCallLookup(w)
        \/ UpdateCheck(w)
        \/ \E f \in FetchOutcomes : FetchDone(w, f)
        \/ SwapList(w)
        \/ SwapDone(w)
        \/ ServerNext(w)
        \/ \E r \in AnswerReplies : Exchange(w, r)
        \/ WorkerProcessed(w)
        \/ WorkerFailed(w)
        \/ WorkerSuccess(w)
        \/ WriteData(w)
        \/ WriteNewline(w)
        \/ WorkerShow(w)

SpecRecord == InitRecord /\ [][NextRecord]_vars

\* The replies of the runs with several passes: a timeout or a PTR record.
LoopReplies ==
    { Reply(TRUE, RcodeSuccess, << >>),
      Reply(FALSE, RcodeSuccess, << PTR(HostName, 300) >>) }

\* The program with and without -l.
NextLoop ==
    \/ Tick
    \/ AppStop
    \/ \E ok \in BOOLEAN : ProducerNewStream(ok)
    \/ ProducerPull
    \/ ProducerPush
    \/ ProducerClose
    \/ ProducerRestart
    \/ \E w \in Workers :
        \/ WorkerDequeue(w)
        \/ WorkerExit(w)
        \/ WorkerCallLookup(w)
        \/ UpdateCheck(w)
        \/ \E f \in FetchOutcomes : FetchDone(w, f)
        \/ SwapList(w)
        \/ SwapDone(w)
        \/ ServerNext(w)
        \/ \E r \in LoopReplies : Exchange(w, r)
        \/ WorkerProcessed(w)
        \/ WorkerFailed(w)
        \/ WorkerSuccess(w)
        \/ WriteData(w)
        \/ WriteNewline(w)
        \/ WorkerShow(w)

SpecLoop == InitLoop /\ [][NextLoop]_vars

SpecQueue == InitQueue /\ [][NextLoop]_vars

\* Names a reply can carry: "h.", ".", "h. " and "h.. ".
SpacedName  == << "h", Dot, Space >>
DottedName  == << "h", Dot, Dot, Space >>

\* The records of the runs that look at names: PTR records with those names
\* and a CNAME record whose owner is the root.
NameKinds ==
    { PTR(HostName, 300), PTR(EmptyName, 300), PTR(SpacedName, 300),
      PTR(DottedName, 300), CNAMEAt(EmptyName, AliasName, 60) }

NameReplies ==
    { Reply(TRUE, RcodeSuccess, << >>) }
        \cup { Reply(FALSE, RcodeSuccess, ans) :
                    ans \in UNION { [1..n -> NameKinds] : n \in 1..MaxAnswer } }

\* ptrstream -c 1 -r 1 -o path with one resolver.
InitNames ==
    MainInitAll(1, FALSE, TRUE, << Endpoint("A", NoPort) >>,
                WorkersStarted(1), FALSE, 1, 1)

\* The program, its replies drawn from NameReplies.
NextNames ==
    \/ Tick
    \/ AppStop
    \/ \E ok \in BOOLEAN : ProducerNewStream(ok)
    \/ ProducerPull
    \/ ProducerPush
    \/ ProducerClose
    \/ \E w \in Workers :
        \/ WorkerDequeue(w)
        \/ WorkerExit(w)
        \/ WorkerCallLookup(w)
        \/ UpdateCheck(w)
        \/ \E f \in FetchOutcomes : FetchDone(w, f)
        \/ SwapList(w)
        \/ SwapDone(w)
        \/ ServerNext(w)
        \/ \E r \in NameReplies : Exchange(w, r)
        \/ WorkerProcessed(w)
        \/ WorkerFailed(w)
        \/ WorkerSuccess(w)
        \/ WriteData(w)
        \/ WriteNewline(w)
        \/ WorkerShow(w)

SpecNames == InitNames /\ [][NextNames]_vars

\* main from flag.Parse() on, and the producer it starts.
NextShard ==
    \/ MainParseShard
    \/ MainStart
    \/ \E ok \in BOOLEAN : ProducerNewStream(ok)
    \/ ProducerPull
    \/ ProducerPush

SpecShard == InitShard /\ [][NextShard]_vars

\* lookupWithRetry on its own.
NextLookup ==
    \/ Tick
    \/ \E w \in Workers :
        \/ LookupCall(w)
        \/ UpdateCheck(w)
        \/ \E f \in FetchOutcomes : FetchDone(w, f)
        \/ SwapList(w)
        \/ SwapDone(w)
        \/ ServerNext(w)
        \/ \E r \in ExchangeOutcomes : Exchange(w, r)

SpecLookup == InitLookup /\ [][NextLookup]_vars

\* wg.Wait() has returned: the queue is closed and every worker has exited.
Completed == closed /\ \A w \in Started : wk[w].pc = "exited"

(***************************************************************************)
(* Properties.                                                             *)
(***************************************************************************)
Range(seq) == { seq[k] : k \in 1..Len(seq) }

\* the addresses the generator has delivered so far in this pass
Delivered == prod.next - 1

\* the complete lines of the output file
Lines == Cardinality({ k \in 1..Len(out) : out[k].kind = "nl" })

\* lookupWithRetry has returned to its caller
HasReturned(w) == wk[w].pc = "processed"

\* C1: in non-loop mode, once the queue is closed and every worker has
\* exited, processed = success + failed and processed is the number of
\* addresses the generator delivered.
C1_CountersBalance ==
    Completed =>
        /\ stats.processed = stats.success + stats.failed
        /\ stats.processed = Delivered

C1_Witness ==
    /\ Completed
    /\ Delivered = NumAddrs
    /\ stats.success > 0
    /\ stats.failed > 0

\* C2: within one lookupWithRetry call, two consecutive attempts never query
\* the same resolver unless the pool has exactly one endpoint (stated for
\* the runs in which the pool is still the list main loaded).
C2_ConsecutiveDistinct ==
    \A w \in Workers : \A k \in 1..(Len(wk[w].queried) - 1) :
        (dnsServers = cfg.servers /\ Len(dnsServers) # 1)
            => wk[w].queried[k] # wk[w].queried[k + 1]

\* C3: lookupWithRetry issues at most cfg.retries queries, stops at the first
\* attempt that yields names, issues exactly cfg.retries queries when every
\* attempt fails and then returns the failure reason of the last attempt.
C3_AtMostRetries ==
    \A w \in Workers :
        /\ Len(wk[w].queried) <= cfg.retries
        /\ wk[w].hits <= 1
        /\ wk[w].hits = 1 =>
                /\ HasReturned(w)
                /\ wk[w].err = NoErr
                /\ Len(wk[w].response.Names) > 0
                /\ wk[w].reason = NoErr
        /\ (HasReturned(w) /\ wk[w].hits = 0) =>
                /\ Len(wk[w].queried) = cfg.retries
                /\ wk[w].err = wk[w].reason
                /\ wk[w].response = EmptyResponse

C3_Witness ==
    \E w \in Workers :
        /\ HasReturned(w)
        /\ cfg.retries = MaxRetries
        /\ Len(wk[w].queried) = MaxRetries
        /\ wk[w].hits = 0
        /\ wk[w].err = ErrNoPTR

\* C4: when an earlier attempt fails and a later one succeeds, the reported
\* resolver is the one that answered the successful attempt, and the address
\* adds exactly 1 to success and 0 to failed.
C4_Failover ==
    /\ \A w \in Workers :
         (HasReturned(w) /\ wk[w].err = NoErr /\ Len(wk[w].queried) > 0) =>
            wk[w].response.Server = LogServer(wk[w].queried[Len(wk[w].queried)])
    /\ \A a \in Addrs :
         hist[a].failover =>
            /\ hist[a].failed = 0
            /\ hist[a].success <= 1
            /\ hist[a].done => hist[a].success = 1
            /\ \A w \in Workers : wk[w].ip = a => wk[w].pc # "failed"

\* pool [A, B], retries = 2, A failed, B answered, the address is finished
C4_Witness ==
    /\ cfg.servers = << Endpoint("A", DefaultPort), Endpoint("B", DefaultPort) >>
    /\ \E a \in Addrs : hist[a].failover /\ hist[a].done
    /\ \E w \in Workers :
         /\ HasReturned(w)
         /\ wk[w].queried = cfg.servers
         /\ wk[w].response.Server = "B"
         /\ wk[w].response.RecordType = "PTR"

C6_LinesNotInterleaved ==
    \A k \in 1..Len(out) :
        IF out[k].kind = "data"
        THEN \/ /\ k < Len(out)
                /\ out[k + 1].kind = "nl"
                /\ out[k + 1].rec = out[k].rec.ip_addr
             \/ /\ k = Len(out)
                /\ \E w \in Workers :
                     /\ wk[w].pc = "newline"
                     /\ mu = w
                     /\ wk[w].ip = out[k].rec.ip_addr
        ELSE /\ k > 1
             /\ out[k - 1].kind = "data"
             /\ out[k - 1].rec.ip_addr = out[k].rec

\* one worker is between its two Write calls while another waits to write
C6_Witness ==
    /\ Len(out) >= 1
    /\ \E w1, w2 \in Workers :
         /\ wk[w1].pc = "newline"
         /\ wk[w2].pc = "write"

\* C7: with an output file, at completion the number of lines written
\* equals the success counter.
C7_OneLinePerSuccess ==
    (Completed /\ cfg.hasOutput) => Lines = stats.success

\* C8: each delivered address is dequeued by exactly one worker, looked up
\* once, yields at most one outcome and is never put back on the queue.
C8_ScannedOnce ==
    \A a \in Addrs :
        /\ hist[a].dequeued <= 1
        /\ hist[a].lookups <= 1
        /\ hist[a].processed <= 1
        /\ hist[a].success + hist[a].failed <= 1
        /\ Cardinality({ w \in Workers : wk[w].ip = a }) <= 1
        /\ hist[a].dequeued = 1 => (a \notin Range(jobs) /\ prod.ip # a)
        /\ hist[a].done => \A w \in Workers : wk[w].ip # a
        /\ Completed => hist[a].dequeued = 1

C8_Witness ==
    /\ Completed
    /\ \E a \in Addrs : hist[a].failed = 1
    /\ \A a \in Addrs : hist[a].done

\* a worker is fetching the remote list or installing it
Refreshing(w) == wk[w].pc \in {"fetch", "swap", "swapped"}

\* C9: a resolver list loaded from a file is never refreshed: no
\* getNextServer call fetches the remote list, replaces the endpoint
\* sequence or resets the cursor.
C9_FileListNeverRefreshed ==
    cfg.fromFile =>
        /\ \A w \in Workers : ~Refreshing(w)
        /\ dnsServers = cfg.servers

\* C10: when the fetch fails or returns an empty list, the endpoint
\* sequence, the cursor and the staleness clock stay as they are, and the
\* same getNextServer call goes on to return an endpoint of the list.
C10_RefreshFailureKeepsPool ==
    [][ \A w \in Workers :
          /\ (wk[w].pc = "fetch" /\ wk'[w].pc # "fetch" /\ wk'[w].refresh = "failed") =>
                /\ dnsServers' = dnsServers
                /\ serverIndex' = serverIndex
                /\ lastDNSUpdate' = lastDNSUpdate
                /\ wk'[w].pc = "server"
          /\ (wk[w].pc = "server" /\ wk'[w].pc # "server" /\ wk[w].refresh = "failed") =>
                /\ wk'[w].pc = "exchange"
                /\ wk'[w].server \in Range(dnsServers)
                /\ dnsServers' = dnsServers ]_vars

C10_Witness ==
    \E w \in Workers :
        /\ wk[w].refresh = "failed"
        /\ wk[w].pc = "exchange"
        /\ ~Fresh

(***************************************************************************)
(* The locks.                                                              *)
(***************************************************************************)
\* updateDNSServers has replaced c.dnsServers and not yet c.serverIndex
MidSwap(w) == wk[w].pc = "swapped"

\* w's step is getNextServer's critical section: c.mu taken, the list and
\* the cursor read, c.mu released
ReadsPool(w) == wk[w].pc = "server" /\ wk'[w].pc # "server"

\* the list and the cursor belong together
PairWhole == serverIndex < Len(dnsServers) \/ (serverIndex = 0 /\ dnsServers = << >>)

\* C11: a successful refresh replaces the list, the cursor and the clock
\* atomically with respect to getNextServer: while the list is replaced and
\* the cursor is not yet, the refreshing worker holds c.mu; whenever c.mu is
\* free the cursor lies within the list; a getNextServer call never reads
\* the pair in between and returns an endpoint of the list it read; the
\* step that releases c.mu leaves the new list with cursor 0 and the clock
\* set to the present.
C11_AtomicSwap ==
    [][ /\ \A w \in Workers : MidSwap(w) => mu = w
        /\ \A w \in Workers : MidSwap(w)' => mu' = w
        /\ mu = NoLock => PairWhole
        /\ mu' = NoLock => PairWhole'
        /\ \A w \in Workers :
              /\ ReadsPool(w) =>
                    /\ \A v \in Workers : ~MidSwap(v)
                    /\ wk'[w].pc = "exchange" =>
                          /\ wk'[w].server = dnsServers[serverIndex + 1]
                          /\ dnsServers' = dnsServers
              /\ (MidSwap(w) /\ ~MidSwap(w)') =>
                    /\ dnsServers' = dnsServers
                    /\ serverIndex' = 0
                    /\ lastDNSUpdate' = now
                    /\ mu' = NoLock ]_vars

\* the new list [C] is installed, the cursor still points at the second
\* endpoint of the old list, and another worker is about to take c.mu
C11_Witness ==
    \E w, v \in Workers :
        /\ MidSwap(w)
        /\ wk[v].pc = "server"
        /\ serverIndex = 1
        /\ Len(dnsServers) = 1

\* the lock w is about to take
WaitsFor(w) ==
    CASE wk[w].pc = "update" -> "updateMu"
      [] wk[w].pc \in {"swap", "server", "write"} -> "mu"
      [] OTHER -> "none"

Holder(lock) ==
    CASE lock = "mu" -> mu
      [] lock = "updateMu" -> updateMu
      [] OTHER -> NoLock

\* w waits for a lock that somebody holds
Blocked(w) == Holder(WaitsFor(w)) # NoLock

\* C12: no set of workers waits for each other's locks: in every state each
\* lock is held by a worker inside the matching critical section, and in
\* every non-empty set of workers some worker is not waiting for a lock held
\* within the set.
C12_NoDeadlock ==
    /\ mu # NoLock => wk[mu].pc \in {"swapped", "newline"}
    /\ updateMu # NoLock => wk[updateMu].pc \in {"fetch", "swap", "swapped"}
    /\ \A S \in SUBSET Workers :
          S # {} => \E w \in S : ~(Blocked(w) /\ Holder(WaitsFor(w)) \in S)

\* a refreshing worker holds updateMu and waits for c.mu, which a worker
\* writing a record holds, while nobody else can start a refresh
C12_Witness ==
    \E w, v \in Workers :
        /\ wk[w].pc = "swap"
        /\ updateMu = w
        /\ wk[v].pc = "newline"
        /\ mu = v
        /\ Blocked(w)

\* C13: a worker that is performing network I/O (the DNS query or the fetch
\* of the resolver list) holds neither c.mu nor c.updateMu.
C13_NoLockAcrossNetwork ==
    \A w \in Workers :
        wk[w].pc \in {"fetch", "exchange"} => (mu # w /\ updateMu # w)

RECURSIVE Sum(_, _)
Sum(f, S) ==
    IF S = {} THEN 0
    ELSE LET x == CHOOSE y \in S : TRUE IN f[x] + Sum(f, S \ {x})

\* getNextServer calls of the lookupWithRetry call in progress that have
\* released c.mu
Served(w) ==
    wk[w].gns - (IF wk[w].pc \in {"server", "fetch", "swap", "swapped"} THEN 1 ELSE 0)

\* ... by all workers, when each worker makes one lookupWithRetry call
TotalServed == Sum([w \in Workers |-> Served(w)], Workers)

\* no refresh has replaced the list main loaded
NotRefreshed == lastDNSUpdate = 0 /\ \A w \in Workers : ~MidSwap(w)

\* C14: between two refreshes the k-th getNextServer call in lock order
\* returns list[(k-1) mod n] and leaves the cursor at k mod n; with an empty
\* pool the call returns none and leaves the cursor unchanged.
C14_RoundRobin ==
    [][ /\ (NotRefreshed /\ Len(dnsServers) > 0) =>
              serverIndex = TotalServed % Len(dnsServers)
        /\ \A w \in Workers : ReadsPool(w) =>
              IF Len(dnsServers) = 0
              THEN /\ serverIndex' = serverIndex
                   /\ wk'[w].server = NoServer
                   /\ wk'[w].err = ErrNoServers
              ELSE /\ wk'[w].pc = "exchange"
                   /\ NotRefreshed =>
                         /\ wk'[w].server =
                               cfg.servers[(TotalServed % Len(cfg.servers)) + 1]
                         /\ serverIndex' = (TotalServed + 1) % Len(cfg.servers)
                   /\ ~NotRefreshed => wk'[w].server \in Range(dnsServers) ]_vars

\* pool [A, B]: the third call has wrapped around and returned A
C14_Witness ==
    /\ NotRefreshed
    /\ Len(dnsServers) = 2
    /\ TotalServed = 3
    /\ serverIndex = 1
    /\ \E w \in Workers :
          /\ wk[w].pc = "exchange"
          /\ wk[w].gns = 2
          /\ wk[w].server = dnsServers[1]

(***************************************************************************)
(* Classification of the answer and the record written.                    *)
(***************************************************************************)
HasType(ans, type) == \E k \in 1..Len(ans) : ans[k].type = type

OfType(ans, type) == SelectSeq(ans, LAMBDA rr : rr.type = type)

RECURSIVE DataOf(_)
DataOf(rrs) == IF rrs = << >> THEN << >> ELSE << Head(rrs).data >> \o DataOf(Tail(rrs))

\* C15: a response whose answer section contains a PTR record is a success
\* with RecordType "PTR", the PTR names as Names and the PTR record's ttl,
\* also when the answer section contains a CNAME record as well.
C15_PTRWins ==
    \A w \in Workers :
        (HasReturned(w) /\ wk[w].err = NoErr /\ HasType(wk[w].answer, "PTR")) =>
            /\ wk[w].response.RecordType = "PTR"
            /\ wk[w].response.Names = DataOf(OfType(wk[w].answer, "PTR"))
            /\ \E k \in 1..Len(wk[w].answer) :
                  /\ wk[w].answer[k].type = "PTR"
                  /\ wk[w].response.TTL = wk[w].answer[k].ttl

\* the record that worker w has just written and not yet ended with "\n"
JustWrote(w) == wk[w].pc = "newline"

Written == out[Len(out)].rec

\* C16: for a response with a CNAME record and no PTR record the record
\* written has record_type "CNAME", a non-empty target, which is the CNAME
\* target without its trailing dot, and the queried name without its
\* trailing dot as ptr_record.
C16_CNAMERecord ==
    \A w \in Workers :
        (JustWrote(w) /\ HasType(wk[w].answer, "CNAME")
                      /\ ~HasType(wk[w].answer, "PTR")) =>
            /\ Written.record_type = "CNAME"
            /\ Written.ptr_record = TrimSuffixDot(ArpaName)
            /\ "target" \in DOMAIN Written
            /\ Written.target # << >>
            /\ \E k \in 1..Len(wk[w].answer) :
                  /\ wk[w].answer[k].type = "CNAME"
                  /\ Written.target = TrimSuffixDot(wk[w].answer[k].data)

\* C17: a record of the output file has a target field if and only if its
\* record_type is "CNAME".
C17_TargetIffCNAME ==
    \A k \in 1..Len(out) :
        out[k].kind = "data" =>
            (("target" \in DOMAIN out[k].rec) <=> out[k].rec.record_type = "CNAME")

(***************************************************************************)
(* The -shard argument.                                                    *)
(***************************************************************************)
\* the positions of "/" in s
Slashes(s) == { k \in 1..Len(s) : s[k] = Slash }

\* s is "n/total" with two decimal integers and 1 <= n <= total
InRange(s) ==
    /\ Cardinality(Slashes(s)) = 1
    /\ LET k == CHOOSE j \in Slashes(s) : TRUE
           n == Atoi(SubSeq(s, 1, k - 1))
           total == Atoi(SubSeq(s, k + 1, Len(s)))
       IN /\ ~n.err
          /\ ~total.err
          /\ 1 <= n.val
          /\ n.val <= total.val
          /\ main.shardNum = n.val
          /\ main.totalShards = total.val

\* nothing of the pipeline exists
NoPipeline ==
    /\ prod.pc = "unstarted"
    /\ prod.pass = 0
    /\ \A w \in Workers : wk[w].pc = "unstarted"
    /\ jobs = << >>

\* C18: parseShardArg returns a pair only with 1 <= index <= total ({1,1}
\* for the empty argument); for every other argument it returns an error,
\* and main then returns with no generator, queue content, producer or
\* worker ever created.
C18_ShardValidation ==
    /\ main.pc \in {"parse", "returned"} => NoPipeline
    /\ main.pc = "returned" =>
          /\ main.err # NoErr
          /\ main.shard # << >>
          /\ ~InRange(main.shard)
    /\ main.pc \in {"start", "running", "stopped"} =>
          /\ main.err = NoErr
          /\ 1 <= main.shardNum
          /\ main.shardNum <= main.totalShards
          /\ IF main.shard = << >>
             THEN main.shardNum = 1 /\ main.totalShards = 1
             ELSE InRange(main.shard)
    /\ prod.pc \notin {"unstarted", "new", "failed"} =>
          /\ prod.stream.shardNum = main.shardNum
          /\ prod.stream.totalShards = main.totalShards

\* -shard 2/1: main has returned on the error of parseShardArg
C18_Witness ==
    /\ main.pc = "returned"
    /\ main.shard = << "2", Slash, "1" >>
    /\ main.err = ErrShardRange
    /\ NoPipeline

(***************************************************************************)
(* The phases of the run.                                                  *)
(***************************************************************************)
Stopped  == main.pc = "stopped"          \* app.Stop() has been called
Draining == closed /\ ~Stopped           \* close(jobs) has happened
Exhausted == prod.next = NumAddrs + 1 /\ prod.pc \in {"close", "done"}

\* address a is on the queue, with a worker, or finished
Accepted(a) ==
    \/ a \in Range(jobs)
    \/ \E w \in Workers : wk[w].ip = a
    \/ hist[a].done

\* C19: without -l, once the generator exists the run goes from Running
\* through Draining to Stopped and does reach Stopped: the queue is closed
\* only after the generator is exhausted, nothing is pushed after the
\* close, every address queued before the close is processed, and
\* app.Stop() is called only after every worker has exited.
C19_DrainsAndStops ==
    /\ [](closed => (Exhausted /\ prod.pass = 1))
    /\ [](closed => \A a \in Addrs : Accepted(a))
    /\ [](Stopped =>
            /\ closed
            /\ jobs = << >>
            /\ \A w \in Workers : wk[w].pc = "exited"
            /\ \A a \in Addrs : hist[a].done /\ hist[a].processed = 1)
    /\ [][ /\ closed => (closed' /\ (jobs' = jobs \/ jobs' = Tail(jobs)))
           /\ Stopped => Stopped'
           /\ (~closed /\ closed') => ~Stopped' ]_vars
    /\ (prod.pc = "pull") ~> Stopped

\* the run has stopped after the whole pass
C19_Witness ==
    /\ Stopped
    /\ prod.pc = "done"
    /\ stats.processed = NumAddrs

\* the arguments golcg.IPStream is called with
StreamArgs ==
    [shardNum |-> main.shardNum, totalShards |-> main.totalShards, seed |-> main.seed]

\* the producer's step creates a generator
CreatesStream == prod.pc = "new" /\ prod'.pc = "pull"

\* C20: with -l the generator, once exhausted, is created again with the
\* same shard index, shard total and seed and delivers its sequence from the
\* start; jobs is never closed, no worker exits and app.Stop() is never
\* called.  Without -l there is one generator and jobs is closed once,
\* after its pass.
C20_LoopNeverCloses ==
    [][ /\ cfg.loop =>
              /\ ~closed /\ ~closed'
              /\ ~Stopped /\ ~Stopped'
              /\ \A w \in Workers : wk[w].pc # "exited" /\ wk'[w].pc # "exited"
              /\ (prod.pc = "close" /\ prod'.pc # "close") =>
                    /\ prod'.pc = "new"
                    /\ prod'.stream = prod.stream
                    /\ jobs' = jobs
        /\ CreatesStream =>
              /\ prod'.stream = StreamArgs
              /\ prod'.next = 1
              /\ prod'.pass = prod.pass + 1
              /\ prod.pass > 0 => (cfg.loop /\ prod'.stream = prod.stream)
        /\ ~cfg.loop =>
              /\ prod.pass <= 1
              /\ (prod.pc = "close" /\ prod'.pc # "close") =>
                    (~closed /\ closed' /\ prod'.pc = "done")
              /\ closed => (closed' /\ prod' = prod /\ prod.pass = 1) ]_vars

\* -l: the second generator is delivering while the first address of the
\* first pass is finished
C20_Witness ==
    /\ cfg.loop
    /\ prod.pass = 2
    /\ prod.pc = "push"
    /\ prod.stream = StreamArgs
    /\ hist[1].done
    /\ hist[1].processed = 1

(***************************************************************************)
(* The worker after a successful lookup.                                   *)
(***************************************************************************)
\* w's step is the one from the given place of the worker loop
StepFrom(w, pc) == wk[w].pc = pc /\ wk'[w].pc # pc

\* w is inside writeNDJSON's critical section or about to enter it
Writing(w) == wk[w].pc \in {"write", "newline"}

\* C21: without an output file writeNDJSON takes no lock and changes
\* nothing: the file stays empty and no worker is ever inside its critical
\* section; the success is counted, and the address goes on to the CNAME
\* count and the display line, which are the same with and without a file.
C21_NoOutputIsNoOp ==
    [][ /\ ~cfg.hasOutput =>
              /\ out = << >> /\ out' = << >>
              /\ \A w \in Workers : ~Writing(w) /\ ~Writing(w)'
              /\ \A w \in Workers : StepFrom(w, "success") =>
                    /\ stats'.success = stats.success + 1
                    /\ mu' = mu
                    /\ FirstCleaned(wk[w].response.Names) # << >> =>
                          wk'[w].pc = "show"
        /\ \A w \in Workers : StepFrom(w, "show") =>
              /\ wk'[w].pc = "idle"
              /\ hist'[wk[w].ip].shown = hist[wk[w].ip].shown + 1
              /\ stats'.cnames = stats.cnames +
                    (IF wk[w].response.RecordType = "CNAME" THEN 1 ELSE 0)
              /\ stats'.success = stats.success
              /\ out' = out /\ mu' = mu
        /\ \A a \in Addrs :
              (hist[a].done /\ hist[a].lines = 1) => hist[a].shown = 1 ]_vars

\* no -o: a CNAME address has been counted and shown, the run is complete
C21_Witness ==
    /\ ~cfg.hasOutput
    /\ Completed
    /\ stats.success = NumAddrs
    /\ \E a \in Addrs : hist[a].shown = 1 /\ hist[a].cnames = 1
    /\ out = << >>

(***************************************************************************)
(* The counters.                                                           *)
(***************************************************************************)
\* the calls of one increment function made so far, over all addresses
Calls(field) == Sum([a \in Addrs |-> hist[a][field]], Addrs)

CounterNames == {"processed", "success", "failed", "cnames"}

\* C22: each counter equals the number of calls of its increment function
\* made so far, whichever workers made them and however they interleave,
\* and no step lowers a counter.
C22_CountersLoseNothing ==
    [][ /\ \A c \in CounterNames :
              /\ stats[c] = Calls(c)
              /\ stats'[c] = Calls(c)'
              /\ stats'[c] >= stats[c] ]_vars

\* two workers have incremented processed one right after the other, both
\* before either went on
C22_Witness ==
    /\ stats.processed = NumWorkers
    /\ \A w \in Workers : wk[w].pc \in {"failed", "success"}

(***************************************************************************)
(* The queue.                                                              *)
(***************************************************************************)
\* addresses taken from the generator and not yet finished: in the
\* producer's hand, on the queue, or with a worker
InFlight ==
    (IF prod.ip # NoJob THEN 1 ELSE 0) + Len(jobs)
        + Cardinality({ w \in Workers : wk[w].ip # NoJob })

QueueFull == Len(jobs) = cfg.concurrency

\* C23: jobs never holds more than cfg.concurrency addresses; while it is
\* full the producer, with one address in its hand, neither pushes nor
\* pulls; and at most 2 * cfg.concurrency + 1 addresses are in flight.
C23_QueueBounded ==
    [][ /\ Len(jobs) <= cfg.concurrency
        /\ Len(jobs') <= cfg.concurrency
        /\ InFlight <= 2 * cfg.concurrency + 1
        /\ InFlight' <= 2 * cfg.concurrency + 1
        /\ (QueueFull /\ prod.pc = "push") =>
              /\ prod' = prod
              /\ jobs' = jobs \/ jobs' = Tail(jobs) ]_vars

\* -c 1: the worker is busy, the queue is full and the producer waits with
\* a third address
C23_Witness ==
    /\ cfg.concurrency = 1
    /\ QueueFull
    /\ prod.pc = "push"
    /\ InFlight = 2 * cfg.concurrency + 1

(***************************************************************************)
(* The life of a worker.                                                   *)
(***************************************************************************)
Live(w) == wk[w].pc # "exited"

\* C24: whatever the outcome of a lookup, the worker goes back to range
\* jobs; a worker exits only from there, when jobs is closed and empty, and
\* stays exited; so every worker main started is alive until jobs is closed.
C24_FailureNotFatal ==
    [][ /\ ~closed => \A w \in Started : Live(w)
        /\ ~closed' => \A w \in Started : Live(w)'
        /\ \A w \in Workers :
              /\ StepFrom(w, "processed") => wk'[w].pc \in {"failed", "success"}
              /\ StepFrom(w, "failed") => wk'[w].pc = "idle"
              /\ StepFrom(w, "success") => wk'[w].pc \in {"idle", "write", "show"}
              /\ StepFrom(w, "write") => wk'[w].pc = "newline"
              /\ StepFrom(w, "newline") => wk'[w].pc = "show"
              /\ StepFrom(w, "show") => wk'[w].pc = "idle"
              /\ (Live(w) /\ ~Live(w)') =>
                    /\ wk[w].pc = "idle"
                    /\ closed
                    /\ jobs = << >>
              /\ ~Live(w) => ~Live(w)' ]_vars

\* both addresses have failed, for different reasons or the same, and every
\* worker is back at range jobs, which is still open
C24_Witness ==
    /\ ~closed
    /\ \A a \in Addrs : hist[a].failed = 1 /\ hist[a].done
    /\ \A w \in Started : wk[w].pc = "idle"

(***************************************************************************)
(* The CNAME counter and the name written to the file.                     *)
(***************************************************************************)
\* C25: cname <= success <= processed in every state, and once the run is
\* complete cname is the number of lookups that succeeded with RecordType
\* "CNAME".
C25_CNAMECount ==
    /\ stats.cnames <= stats.success
    /\ stats.success <= stats.processed
    /\ Completed => stats.cnames = Calls("aliases")

\* strings.HasPrefix(s, " "), strings.HasSuffix(s, " "), strings.HasSuffix(s, ".")
LeadingSpace(s)  == Len(s) > 0 /\ s[1] = Space
TrailingSpace(s) == Len(s) > 0 /\ s[Len(s)] = Space
TrailingDot(s)   == Len(s) > 0 /\ s[Len(s)] = Dot

\* the ptr_record fields of the records in the file
PtrRecords == { out[k].rec.ptr_record : k \in { j \in 1..Len(out) : out[j].kind = "data" } }

\* C27: no ptr_record in the file is empty, begins or ends with a space, or
\* ends with a dot.
C27_NamesClean ==
    \A ptr \in PtrRecords :
        /\ ptr # << >>
        /\ ~LeadingSpace(ptr)
        /\ ~TrailingSpace(ptr)
        /\ ~TrailingDot(ptr)

(***************************************************************************)
(* The resolver pool: who touches it, when it is refreshed, its cursor.    *)
(***************************************************************************)
\* w's step is getNextServer's critical section or one half of the swap:
\* c.dnsServers and c.serverIndex are read or written with c.mu taken.
LockedAccess(w) ==
    \/ StepFrom(w, "server")
    \/ StepFrom(w, "swap")
    \/ StepFrom(w, "swapped")

\* w's step is the worker's test len(cfg.dnsServers) > 0, before the lookup
\* or before the display line: c.dnsServers is read and no lock is taken.
PlainRead(w) == StepFrom(w, "check") \/ StepFrom(w, "show")

\* C26: the list and the cursor are touched under c.mu only: the steps
\* that take c.mu find it free or held by their own worker, and no worker
\* reads the list without c.mu while a refresh is replacing it.
C26_PoolUnderLock ==
    [][ \A w \in Workers :
          /\ LockedAccess(w) => mu \in {NoLock, w}
          /\ PlainRead(w) => \A v \in Workers : ~MidSwap(v) ]_vars

\* time.Since(c.lastDNSUpdate), in hours
Elapsed == now - lastDNSUpdate

\* w's step is the clock test of updateDNSServers and finds the list stale
StartsFetch(w) == wk[w].pc = "update" /\ wk'[w].pc = "fetch"

Fetching == { w \in Workers : Refreshing(w) }

\* C28 as the code has it: a fetch starts only when at least 24 hours have
\* elapsed since the last successful refresh or since startup, and a call
\* that finds less goes on without fetching; the refresh that installs a
\* list sets the clock to the present; at most one refresh is under way at
\* any time, and it holds c.updateMu.
C28_RefreshTiming ==
    [][ /\ \A w \in Workers :
              /\ StartsFetch(w) => Elapsed >= RefreshHours
              /\ (StepFrom(w, "update") /\ Elapsed < RefreshHours) =>
                    /\ wk'[w].pc = "server"
                    /\ updateMu' = updateMu
              /\ StepFrom(w, "swapped") =>
                    /\ lastDNSUpdate' = now
                    /\ Elapsed' = 0
              /\ Refreshing(w) => updateMu = w
        /\ Cardinality(Fetching) <= 1
        /\ Cardinality(Fetching') <= 1 ]_vars

\* a refresh has installed a list at hour 24, and a later getNextServer
\* call has found the list fresh while the other worker was in its own call
C28_Witness ==
    /\ lastDNSUpdate = RefreshHours
    /\ Elapsed = 0
    /\ \E w, v \in Workers :
          /\ w # v
          /\ wk[w].refresh = "list"
          /\ wk[v].pc = "exchange"
          /\ wk[v].refresh = "none"
          /\ wk[v].server.host = "C"

\* C28 as stated: a fetch starts only when more than 24 hours have elapsed.
C28_MoreThanADay ==
    [][ \A w \in Workers : StartsFetch(w) => Elapsed > RefreshHours ]_vars

\* the cursor is an index of the list
CursorValid == Len(dnsServers) > 0 => serverIndex \in 0..(Len(dnsServers) - 1)

\* no refresh is between c.dnsServers = resolvers and c.serverIndex = 0
Settled == \A v \in Workers : ~MidSwap(v)

\* C29 as the code has it: in every state in which no refresh is between
\* its two assignments (c.mu held), the cursor is an index of a non-empty
\* list; getNextServer finds it so, indexes within the list, and leaves it
\* so.
C29_CursorInRange ==
    [][ /\ Settled => CursorValid
        /\ Settled' => CursorValid'
        /\ \A w \in Workers :
              (StepFrom(w, "server") /\ Len(dnsServers) > 0) =>
                  /\ serverIndex \in 0..(Len(dnsServers) - 1)
                  /\ serverIndex' \in 0..(Len(dnsServers') - 1)
                  /\ wk'[w].server \in Range(dnsServers) ]_vars

\* w asked A, the first of two resolvers, which left the cursor at 1; its
\* next getNextServer call installed the one-element list [C] and returned
\* C; the other worker has not called getNextServer yet
C29_Witness ==
    \E w \in Workers :
        /\ Len(cfg.servers) = 2
        /\ wk[w].pc = "exchange"
        /\ Len(wk[w].queried) = 1
        /\ wk[w].queried[1].host = "A"
        /\ wk[w].refresh = "list"
        /\ wk[w].server.host = "C"
        /\ serverIndex = 0
        /\ \A v \in Workers \ {w} : wk[v].gns = 0

\* C29 as stated: the cursor is an index of the list in every state.
C29_CursorAlwaysInRange == CursorValid

(***************************************************************************)
(* What lookupWithRetry returns.                                           *)
(***************************************************************************)
\* C30: lookupWithRetry returns a response with names and a nil error, or
\* DNSResponse{} and an error; never DNSResponse{} and a nil error.
C30_ResponseOrError ==
    \A w \in Workers :
        HasReturned(w) =>
            \/ wk[w].err = NoErr /\ Len(wk[w].response.Names) > 0
            \/ wk[w].err # NoErr /\ wk[w].response = EmptyResponse

(***************************************************************************)
(* The end of the producer goroutine.                                      *)
(***************************************************************************)
\* the producer goroutine has returned: after close(jobs), or from the
\* error branch of golcg.IPStream
ProducerEnded == prod.pc \in {"done", "failed"}

\* C31: whenever the producer goroutine has ended, jobs has been closed,
\* also when it ended because the generator could not be created.
C31_ProducerEndsClosed == ProducerEnded => closed

====
